---- MODULE Spec2Model ----
(***************************************************************************)
(* Model of elf_diff's settings resolution (src/src/elf_diff/settings.py): *)
(* the parameter schema, Settings.__init__ as a pipeline of its methods     *)
(* (_presetDefaults, _parseCommandLineArgs, _readDriverFile,                *)
(* _considerCommandLineArgs, _validateBinaries, findUtility x 4,            *)
(* _prepareInfoFiles, _prepareAlias) and writeParameterTemplateFile.        *)
(*                                                                         *)
(* Python values are pairs <<type, tokens>>: the type name and the value's  *)
(* text as a sequence of string tokens, so that str + str is \o and          *)
(* "{}".format(value) is a real conversion (None becomes the text None).    *)
(***************************************************************************)
EXTENDS Naturals, Sequences, FiniteSets, TLC

VARIABLES
    os_name,              \* os.name of the platform: "nt" or "posix"
    files,                \* paths p with os.path.isfile(p)
    executables,          \* paths p with os.access(p, os.X_OK)
    argv,                 \* sys.argv[1:] up to "--": [opts, binaries]
    driver_doc,           \* content of the file named by --driver_file
    cmd_line_args,        \* the argparse Namespace
    settings,             \* the Settings attributes named by PARAMETERS
    mass_report_members,  \* self.mass_report_members
    binary_info,          \* self.old_binary_info, self.new_binary_info
    warnings,             \* utilities for which warning(...) was called
    template,             \* the file written by writeParameterTemplateFile
    from_template,        \* this run's driver file is a written template
    pc,                   \* position in Settings.__init__
    err                   \* the exception that ended __init__, if any

vars == <<os_name, files, executables, argv, driver_doc, cmd_line_args, settings,
          mass_report_members, binary_info, warnings, template, from_template,
          pc, err>>

-----------------------------------------------------------------------------
(* Python values *)

None == <<"NoneType", <<>>>>

PyBool(b) == <<"bool", IF b THEN <<"True">> ELSE <<"False">>>>

PyFloat(text) == <<"float", <<text>>>>

PyStr(toks) == <<"str", toks>>

PyList(toks) == <<"list", toks>>

\* an attribute that has not been assigned yet
Unset == <<"unset", <<>>>>

\* bool(value), as 'if value' / 'if not value' evaluate it
Truthy(v) ==
    CASE v[1] = "NoneType" -> FALSE
      [] v[1] = "bool" -> v[2] = <<"True">>
      [] v[1] = "float" -> v[2] # <<"0.0">>
      [] OTHER -> v[2] # <<>>

\* '{value}'.format(value=v): the text written for a value
PyFormat(v) ==
    CASE v[1] = "NoneType" -> <<"None">>
      [] v[1] = "list" -> <<"['">> \o v[2] \o <<"']">>
      [] OTHER -> v[2]

-----------------------------------------------------------------------------
(* The parameter schema *)

Parameter(name, default, no_cmd_line, is_flag, action) ==
    [name |-> name, default |-> default, no_cmd_line |-> no_cmd_line,
     is_flag |-> is_flag, action |-> action]

\* Parameter(name, description): default None, a value taking flag
Plain(name) == Parameter(name, None, FALSE, FALSE, "store")

WithDefault(name, default) == Parameter(name, default, FALSE, FALSE, "store")

Flag(name) == Parameter(name, PyBool(FALSE), FALSE, TRUE, "store")

PARAMETERS == <<
    Plain("old_binary_filename"),
    Plain("new_binary_filename"),
    WithDefault("language", PyStr(<<"c++">>)),
    Plain("source_prefix"),
    Plain("old_source_prefix"),
    Plain("new_source_prefix"),
    Plain("project_title"),
    Plain("old_alias"),
    Plain("new_alias"),
    Plain("old_info_file"),
    Plain("new_info_file"),
    WithDefault("build_info", PyStr(<<>>)),
    WithDefault("similarity_threshold", PyFloat("0.5")),
    Flag("skip_symbol_similarities"),
    Flag("consider_equal_sized_identical"),
    Flag("skip_details"),
    Parameter("html_template_dir", None, TRUE, FALSE, "store"),
    Plain("bin_dir"),
    WithDefault("bin_prefix", PyStr(<<>>)),
    Plain("objdump_command"),
    Plain("nm_command"),
    Plain("readelf_command"),
    Plain("size_command"),
    Plain("old_mangling_file"),
    Plain("new_mangling_file"),
    Plain("html_file"),
    Plain("html_dir"),
    Plain("pdf_file"),
    Plain("yaml_file"),
    Plain("json_file"),
    Plain("txt_file"),
    Plain("xml_file"),
    Flag("dump_document_structure"),
    Flag("mass_report"),
    Plain("symbol_selection_regex"),
    Plain("symbol_selection_regex_old"),
    Plain("symbol_selection_regex_new"),
    Plain("symbol_exclusion_regex"),
    Plain("symbol_exclusion_regex_old"),
    Plain("symbol_exclusion_regex_new"),
    Parameter("load_plugin", None, FALSE, FALSE, "append"),
    Parameter("load_default_plugin", None, FALSE, FALSE, "append"),
    Flag("list_default_plugins"),
    Plain("driver_file"),
    Plain("driver_template_file"),
    Flag("debug")
>>

Names == {PARAMETERS[i].name : i \in DOMAIN PARAMETERS}

ParameterNamed == [n \in Names |-> PARAMETERS[CHOOSE i \in DOMAIN PARAMETERS : PARAMETERS[i].name = n]]

Default(n) == ParameterNamed[n].default

\* the parameters _prepareParser gives a flag
CmdLineNames == {n \in Names : ~ParameterNamed[n].no_cmd_line}

-----------------------------------------------------------------------------
(* The platform: paths, the file system, the executable search path *)

UTILITIES == <<"objdump", "nm", "readelf", "size">>

UtilityNames == {UTILITIES[i] : i \in DOMAIN UTILITIES}

\* name + "_command"
CommandName(name) ==
    CASE name = "objdump" -> "objdump_command"
      [] name = "nm" -> "nm_command"
      [] name = "readelf" -> "readelf_command"
      [] name = "size" -> "size_command"

\* os.path.join(directory, basename) on a platform
JoinOn(os, directory, basename) ==
    directory \o <<IF os = "nt" THEN "\\" ELSE "/">> \o basename

Join(directory, basename) == JoinOn(os_name, directory, basename)

\* os.path.isfile(path) and os.access(path, os.X_OK)
IsExecutableFile(path) == path \in files /\ path \in executables

\* the directories of the PATH environment variable
SearchPath == << <<"/usr/bin">> >>

RECURSIVE WhichFrom(_, _)
WhichFrom(i, basename) ==
    IF i > Len(SearchPath) THEN None
    ELSE IF IsExecutableFile(Join(SearchPath[i], basename))
         THEN PyStr(Join(SearchPath[i], basename))
         ELSE WhichFrom(i + 1, basename)

\* shutil.which(basename): the first hit on the search path, or None
Which(basename) == WhichFrom(1, basename)

-----------------------------------------------------------------------------
(* Exceptions: the message of the Exception raised, with its arguments *)

NoError == [msg |-> "", arg |-> <<>>, index |-> 0]

DriverFileParseError == [msg |-> "yaml.YAMLError", arg |-> <<>>, index |-> 0]

MissingField(field, bin_pair_id) ==
    [msg |-> "No {field} defined for binary pair {bin_pair_id}",
     arg |-> <<field>>, index |-> bin_pair_id]

RedundantOldBinary ==
    [msg |-> "Old binary filename redundantly defined", arg |-> <<>>, index |-> 0]

\* the message the new binary would have of its own
RedundantNewBinary_Distinct ==
    [msg |-> "New binary filename redundantly defined", arg |-> <<>>, index |-> 0]

\* the message raised for the new binary is the one raised for the old binary
RedundantNewBinary ==
    [msg |-> "Old binary filename redundantly defined", arg |-> <<>>, index |-> 0]

InvalidBinaryArgumentCount ==
    [msg |-> "Please specify either none or two binaries", arg |-> <<>>, index |-> 0]

UtilityNotFound(name) ==
    [msg |-> "Unnable to find {name} command", arg |-> <<name>>, index |-> 0]

OldBinaryNotFound(path) ==
    [msg |-> "Old binary '%s' is not a file or cannot be found", arg |-> path, index |-> 0]

NewBinaryNotFound(path) ==
    [msg |-> "New binary '%s' is not a file or cannot be found", arg |-> path, index |-> 0]

OldInfoFileNotFound(path) ==
    [msg |-> "Unable to find old info file '%s'", arg |-> path, index |-> 0]

NewInfoFileNotFound(path) ==
    [msg |-> "Unable to find new info file '%s'", arg |-> path, index |-> 0]

\* raise: __init__ ends with the exception, no Settings instance exists
Raise(e) == pc' = "failed" /\ err' = e

-----------------------------------------------------------------------------
(* _presetDefaults *)

\* the slip of presetting every attribute to None instead of its default
DefaultSettings_AllNone == [n \in Names |-> None]

DefaultSettings == [n \in Names |-> Default(n)]

PresetDefaults ==
    /\ pc = "preset"
    /\ mass_report_members' = <<>>
    /\ settings' = DefaultSettings
    /\ pc' = "parse"
    /\ UNCHANGED <<os_name, files, executables, argv, driver_doc, cmd_line_args,
                   binary_info, warnings, template, from_template, err>>

-----------------------------------------------------------------------------
(* _parseCommandLineArgs *)

\* what argparse stores for a parameter: the flag's value when the flag is
\* on the command line, the add_argument default (the schema default) when not
ParsedValue(n, opts) ==
    IF n \in DOMAIN opts
    THEN IF ParameterNamed[n].is_flag THEN PyBool(TRUE)
         ELSE IF ParameterNamed[n].action = "append" THEN PyList(opts[n])
         ELSE PyStr(opts[n])
    ELSE Default(n)

ParseArgs(args) ==
    [opts |-> [n \in CmdLineNames |-> ParsedValue(n, args.opts)],
     binaries |-> args.binaries]

\* cmd_line_args = Settings._parseCommandLineArgs(), then the four attributes
\* __init__ sets to None
ParseCommandLineArgs ==
    /\ pc = "parse"
    /\ cmd_line_args' = ParseArgs(argv)
    /\ settings' = [settings EXCEPT !["old_binary_filename"] = None,
                                    !["new_binary_filename"] = None,
                                    !["old_alias"] = None,
                                    !["new_alias"] = None]
    /\ pc' = "driver"
    /\ UNCHANGED <<os_name, files, executables, argv, driver_doc, mass_report_members,
                   binary_info, warnings, template, from_template, err>>

-----------------------------------------------------------------------------
(* _readDriverFile *)

\* a driver file document: ok is FALSE when yaml.load raises YAMLError; params
\* are its top level keys that name parameters; binary_pairs is its list of
\* data sets, each giving data_set.get(field) for the three fields
DriverDoc(ok, params, has_binary_pairs, binary_pairs) ==
    [ok |-> ok, params |-> params, has_binary_pairs |-> has_binary_pairs,
     binary_pairs |-> binary_pairs]

\* BinaryPairSettings(short_name, old_binary, new_binary)
BinaryPairSettings(short_name, old_binary, new_binary) ==
    [short_name |-> short_name, old_binary |-> old_binary, new_binary |-> new_binary]

\* the first value of bin_pair_id
FirstBinPairId == 1

\* the slip of checking new_binary before old_binary
DataSetError_NewFirst(data_set, bin_pair_id) ==
    IF ~Truthy(data_set.short_name) THEN MissingField("short_name", bin_pair_id)
    ELSE IF ~Truthy(data_set.new_binary) THEN MissingField("new_binary", bin_pair_id)
    ELSE IF ~Truthy(data_set.old_binary) THEN MissingField("old_binary", bin_pair_id)
    ELSE NoError

\* the check of one data set: the exception it raises, or NoError
DataSetError(data_set, bin_pair_id) ==
    IF ~Truthy(data_set.short_name) THEN MissingField("short_name", bin_pair_id)
    ELSE IF ~Truthy(data_set.old_binary) THEN MissingField("old_binary", bin_pair_id)
    ELSE IF ~Truthy(data_set.new_binary) THEN MissingField("new_binary", bin_pair_id)
    ELSE NoError

\* the loop over my_yaml["binary_pairs"], from data set i on
RECURSIVE ReadBinaryPairs(_, _, _, _)
ReadBinaryPairs(pairs, i, bin_pair_id, members) ==
    IF i > Len(pairs) THEN [members |-> members, err |-> NoError]
    ELSE IF DataSetError(pairs[i], bin_pair_id) # NoError
         THEN [members |-> members, err |-> DataSetError(pairs[i], bin_pair_id)]
         ELSE ReadBinaryPairs(pairs, i + 1, bin_pair_id + 1,
                  Append(members, BinaryPairSettings(pairs[i].short_name,
                                      pairs[i].old_binary, pairs[i].new_binary)))

\* setattr(self, parameter.name, my_yaml[parameter.name]) for every key
ApplyDriverParams(s, doc) ==
    [n \in Names |-> IF n \in DOMAIN doc.params THEN doc.params[n] ELSE s[n]]

\* if cmd_line_args.driver_file: self.driver_file = ...; self._readDriverFile()
ReadDriverFile ==
    /\ pc = "driver"
    /\ Truthy(cmd_line_args.opts["driver_file"])
    /\ LET named == [settings EXCEPT !["driver_file"] = cmd_line_args.opts["driver_file"]]
           read == ReadBinaryPairs(driver_doc.binary_pairs, 1, FirstBinPairId,
                                   mass_report_members)
       IN  IF ~driver_doc.ok
           THEN /\ settings' = named
                /\ Raise(DriverFileParseError)
                /\ UNCHANGED mass_report_members
           ELSE /\ settings' = ApplyDriverParams(named, driver_doc)
                /\ IF driver_doc.has_binary_pairs
                   THEN /\ mass_report_members' = read.members
                        /\ IF read.err # NoError
                           THEN Raise(read.err)
                           ELSE pc' = "consider" /\ UNCHANGED err
                   ELSE /\ pc' = "consider"
                        /\ UNCHANGED <<mass_report_members, err>>
    /\ UNCHANGED <<os_name, files, executables, argv, driver_doc, cmd_line_args,
                   binary_info, warnings, template, from_template>>

\* no --driver_file: the driver file is not read
NoDriverFile ==
    /\ pc = "driver"
    /\ ~Truthy(cmd_line_args.opts["driver_file"])
    /\ pc' = "consider"
    /\ UNCHANGED <<os_name, files, executables, argv, driver_doc, cmd_line_args,
                   settings, mass_report_members, binary_info, warnings, template,
                   from_template, err>>

-----------------------------------------------------------------------------
(* _considerCommandLineArgs *)

\* the slip of applying every parsed value, the default included
DiffersFromDefault_Always(value, default) == TRUE

\* if value != parameter.default
DiffersFromDefault(value, default) == value # default

\* the loop over PARAMETERS
ApplyCommandLine(s, args) ==
    [n \in Names |->
        IF n \in CmdLineNames /\ DiffersFromDefault(args.opts[n], Default(n))
        THEN args.opts[n]
        ELSE s[n]]

\* self.old_binary_filename = binaries[0], self.new_binary_filename = binaries[1]
\* (Python indexes from 0, the sequence from 1)
OldPositional(binaries) == PyStr(<<binaries[1]>>)

\* the slip of taking binaries[0] for the new binary as well
NewPositional_First(binaries) == PyStr(<<binaries[1]>>)

NewPositional(binaries) == PyStr(<<binaries[2]>>)

\* len(cmd_line_args.binaries) == 0, len(cmd_line_args.binaries) == 2
NoBinaries(binaries) == Len(binaries) = 0

\* the slip of accepting two or more binaries
TwoBinaries_AtLeast(binaries) == Len(binaries) >= 2

TwoBinaries(binaries) == Len(binaries) = 2

\* the branch on len(cmd_line_args.binaries): the attributes and the exception
ReconcileBinaries(s, binaries) ==
    IF NoBinaries(binaries) THEN [settings |-> s, err |-> NoError]
    ELSE IF TwoBinaries(binaries)
    THEN IF s["old_binary_filename"] # None
         THEN [settings |-> s, err |-> RedundantOldBinary]
         ELSE LET t == [s EXCEPT !["old_binary_filename"] = OldPositional(binaries)]
              IN  IF t["new_binary_filename"] # None
                  THEN [settings |-> t, err |-> RedundantNewBinary]
                  ELSE [settings |-> [t EXCEPT !["new_binary_filename"] =
                                                   NewPositional(binaries)],
                        err |-> NoError]
    ELSE [settings |-> s, err |-> InvalidBinaryArgumentCount]

ConsiderCommandLineArgs ==
    /\ pc = "consider"
    /\ LET r == ReconcileBinaries(ApplyCommandLine(settings, cmd_line_args),
                                  cmd_line_args.binaries)
       IN  /\ settings' = r.settings
           /\ IF r.err # NoError
              THEN Raise(r.err)
              ELSE pc' = "validate" /\ UNCHANGED err
    /\ UNCHANGED <<os_name, files, executables, argv, driver_doc, cmd_line_args,
                   mass_report_members, binary_info, warnings, template, from_template>>

-----------------------------------------------------------------------------
(* _validateBinaries *)

ValidateBinaries ==
    /\ pc = "validate"
    /\ IF /\ Truthy(settings["old_binary_filename"])
          /\ settings["old_binary_filename"][2] \notin files
       THEN Raise(OldBinaryNotFound(settings["old_binary_filename"][2]))
       ELSE IF /\ Truthy(settings["new_binary_filename"])
               /\ settings["new_binary_filename"][2] \notin files
            THEN Raise(NewBinaryNotFound(settings["new_binary_filename"][2]))
            ELSE pc' = UTILITIES[1] /\ UNCHANGED err
    /\ UNCHANGED <<os_name, files, executables, argv, driver_doc, cmd_line_args,
                   settings, mass_report_members, binary_info, warnings, template,
                   from_template>>

-----------------------------------------------------------------------------
(* findUtility *)

\* the slip of one extension order on every platform
ExeExtensions_SameEverywhere(os) == << <<>>, <<".exe">> >>

\* exe_extensions, by os.name
ExeExtensions(os) ==
    IF os = "nt" THEN << <<".exe">>, <<>> >> ELSE << <<>>, <<".exe">> >>

\* self.bin_prefix + name + exe_extension
Basename(s, name, exe_extension) == s["bin_prefix"][2] \o <<name>> \o exe_extension

\* _findUtilityInBinDir, from extension i on
RECURSIVE FindUtilityInBinDirFrom(_, _, _, _)
FindUtilityInBinDirFrom(s, name, exe_extensions, i) ==
    IF i > Len(exe_extensions) THEN None
    ELSE IF /\ s["bin_dir"] # None
            /\ IsExecutableFile(Join(s["bin_dir"][2], Basename(s, name, exe_extensions[i])))
         THEN PyStr(Join(s["bin_dir"][2], Basename(s, name, exe_extensions[i])))
         ELSE FindUtilityInBinDirFrom(s, name, exe_extensions, i + 1)

FindUtilityInBinDir(s, name, exe_extensions) ==
    FindUtilityInBinDirFrom(s, name, exe_extensions, 1)

\* _findUtilityUsingWhich, from extension i on
RECURSIVE FindUtilityUsingWhichFrom(_, _, _, _)
FindUtilityUsingWhichFrom(s, name, exe_extensions, i) ==
    IF i > Len(exe_extensions) THEN None
    ELSE IF /\ Which(Basename(s, name, exe_extensions[i])) # None
            /\ IsExecutableFile(Which(Basename(s, name, exe_extensions[i]))[2])
         THEN Which(Basename(s, name, exe_extensions[i]))
         ELSE FindUtilityUsingWhichFrom(s, name, exe_extensions, i + 1)

FindUtilityUsingWhich(s, name, exe_extensions) ==
    FindUtilityUsingWhichFrom(s, name, exe_extensions, 1)

\* the configured command is accepted as it is
PredefinedAccepted(command) == command # None /\ IsExecutableFile(command[2])

\* the slip of searching the search path before the bin_dir
SearchUtility_WhichFirst(s, name) ==
    IF FindUtilityUsingWhich(s, name, ExeExtensions(os_name)) # None
    THEN FindUtilityUsingWhich(s, name, ExeExtensions(os_name))
    ELSE FindUtilityInBinDir(s, name, ExeExtensions(os_name))

\* the slip of giving up when a predefined command is not executable
SearchUtility_GiveUp(s, name) ==
    IF s[CommandName(name)] # None THEN None
    ELSE IF FindUtilityInBinDir(s, name, ExeExtensions(os_name)) # None
    THEN FindUtilityInBinDir(s, name, ExeExtensions(os_name))
    ELSE FindUtilityUsingWhich(s, name, ExeExtensions(os_name))

\* the command found in the bin_dir or else on the search path, or None
SearchUtility(s, name) ==
    IF FindUtilityInBinDir(s, name, ExeExtensions(os_name)) # None
    THEN FindUtilityInBinDir(s, name, ExeExtensions(os_name))
    ELSE FindUtilityUsingWhich(s, name, ExeExtensions(os_name))

\* the slip of going on to the info files after the first utility
AfterUtility_StraightToInfo(i) == "info"

\* the step after findUtility(UTILITIES[i])
AfterUtility(i) == IF i < Len(UTILITIES) THEN UTILITIES[i + 1] ELSE "info"

FindUtility(i) ==
    LET name == UTILITIES[i]
        command_name == CommandName(name)
        command == settings[command_name]
    IN  /\ pc = name
        /\ IF PredefinedAccepted(command)
           THEN /\ pc' = AfterUtility(i)
                /\ UNCHANGED <<settings, warnings, err>>
           ELSE /\ warnings' = IF command # None THEN warnings \cup {name} ELSE warnings
                /\ IF SearchUtility(settings, name) # None
                   THEN /\ settings' = [settings EXCEPT ![command_name] =
                                                         SearchUtility(settings, name)]
                        /\ pc' = AfterUtility(i)
                        /\ UNCHANGED err
                   ELSE /\ Raise(UtilityNotFound(name))
                        /\ UNCHANGED settings
        /\ UNCHANGED <<os_name, files, executables, argv, driver_doc, cmd_line_args,
                       mass_report_members, binary_info, template, from_template>>

-----------------------------------------------------------------------------
(* _prepareInfoFiles, _prepareAlias *)

\* f.read() of a file
FileContent(path) == PyStr(<<"contents of ">> \o path)

PrepareInfoFiles ==
    /\ pc = "info"
    /\ LET old == settings["old_info_file"]
           new == settings["new_info_file"]
           old_info == IF Truthy(old) THEN FileContent(old[2]) ELSE PyStr(<<>>)
           new_info == IF Truthy(new) THEN FileContent(new[2]) ELSE PyStr(<<>>)
       IN  IF Truthy(old) /\ old[2] \notin files
           THEN Raise(OldInfoFileNotFound(old[2])) /\ UNCHANGED binary_info
           ELSE IF Truthy(new) /\ new[2] \notin files
                THEN /\ Raise(NewInfoFileNotFound(new[2]))
                     /\ binary_info' = [binary_info EXCEPT !.old = old_info]
                ELSE /\ binary_info' = [old |-> old_info, new |-> new_info]
                     /\ pc' = "alias"
                     /\ UNCHANGED err
    /\ UNCHANGED <<os_name, files, executables, argv, driver_doc, cmd_line_args,
                   settings, mass_report_members, warnings, template, from_template>>

\* the slip of taking the filename whether or not an alias was given
PrepareAlias_Overwrite ==
    /\ pc = "alias"
    /\ settings' = [settings EXCEPT
           !["old_alias"] = settings["old_binary_filename"],
           !["new_alias"] = settings["new_binary_filename"]]
    /\ pc' = "done"
    /\ UNCHANGED <<os_name, files, executables, argv, driver_doc, cmd_line_args,
                   mass_report_members, binary_info, warnings, template,
                   from_template, err>>

PrepareAlias ==
    /\ pc = "alias"
    /\ settings' = [settings EXCEPT
           !["old_alias"] = IF @ = None THEN settings["old_binary_filename"] ELSE @,
           !["new_alias"] = IF @ = None THEN settings["new_binary_filename"] ELSE @]
    /\ pc' = "done"
    /\ UNCHANGED <<os_name, files, executables, argv, driver_doc, cmd_line_args,
                   mass_report_members, binary_info, warnings, template,
                   from_template, err>>

-----------------------------------------------------------------------------
(* writeParameterTemplateFile, and a run on the file it wrote *)

NoTemplate == [written |-> FALSE, output_actual_values |-> FALSE,
               text |-> [n \in Names |-> <<>>]]

\* the value written for a parameter
TemplateValue(s, n, output_actual_values) ==
    IF output_actual_values
    THEN IF ~Truthy(s[n]) THEN Default(n) ELSE s[n]
    ELSE Default(n)

\* the text between the quotes of the line  name: "value"
TemplateText(s, output_actual_values) ==
    [n \in Names |-> PyFormat(TemplateValue(s, n, output_actual_values))]

WriteParameterTemplateFile(output_actual_values) ==
    /\ pc = "done"
    /\ template' = [written |-> TRUE, output_actual_values |-> output_actual_values,
                    text |-> TemplateText(settings, output_actual_values)]
    /\ UNCHANGED <<os_name, files, executables, argv, driver_doc, cmd_line_args,
                   settings, mass_report_members, binary_info, warnings,
                   from_template, pc, err>>

\* yaml.load of the written file: every  name: "value"  line is a key whose
\* value is the string between the quotes
LoadTemplate(text) ==
    DriverDoc(TRUE, [n \in Names |-> PyStr(text[n])], FALSE, <<>>)

TemplatePath == <<"template.yml">>

\* a new run of the program whose only argument names the written file
RunOnTemplate ==
    /\ pc = "done"
    /\ template.written
    /\ argv' = [opts |-> [n \in {"driver_file"} |-> TemplatePath], binaries |-> <<>>]
    /\ driver_doc' = LoadTemplate(template.text)
    /\ from_template' = TRUE
    /\ cmd_line_args' = [opts |-> [n \in CmdLineNames |-> Unset], binaries |-> <<>>]
    /\ settings' = [n \in Names |-> Unset]
    /\ mass_report_members' = <<>>
    /\ binary_info' = [old |-> Unset, new |-> Unset]
    /\ warnings' = {}
    /\ pc' = "preset"
    /\ UNCHANGED <<os_name, files, executables, template, err>>

-----------------------------------------------------------------------------
(* The inputs of a run: the platform, the files, the command line and the    *)
(* driver file. They are drawn from four families of scenarios.              *)

\* at most this many positional binaries on the command line
MaxBinaries == 3

\* at most this many flags on the command line (--driver_file not counted)
MaxCliFlags == 1

\* at most this many parameter keys in a driver file
MaxDriverKeys == 1

\* at most this many data sets under binary_pairs
MaxPairs == 2

PositionalNames == <<"a.elf", "b.elf", "c.elf", "d.elf", "e.elf">>

BinaryFiles == {<<PositionalNames[i]>> : i \in DOMAIN PositionalNames}
                   \cup {<<"old.elf">>, <<"new.elf">>}

InfoFiles == {<<"old.txt">>, <<"new.txt">>}

DriverPath == <<"driver.yml">>

BinDir == <<"/tools">>

PredefinedPath(name) == <<"/opt/", name>>

Scenario(os, fs, exes, opts, binaries, doc) ==
    [os_name |-> os, files |-> fs, executables |-> exes,
     argv |-> [opts |-> opts, binaries |-> binaries], driver_doc |-> doc]

NoDoc == DriverDoc(TRUE, <<>>, FALSE, <<>>)

\* a function from the names of a set of <<name, value>> pairs
AsFunction(choice) ==
    IF choice = {} THEN <<>>
    ELSE [n \in {c[1] : c \in choice} |-> (CHOOSE c \in choice : c[1] = n)[2]]

\* the subsets of at most max pairs with distinct names
Mentions(choices, max) ==
    {c \in SUBSET choices :
        /\ Cardinality(c) <= max
        /\ \A x, y \in c : x[1] = y[1] => x = y}

WithDriverFile(opts, doc) ==
    IF doc = NoDoc THEN opts
    ELSE [n \in DOMAIN opts \cup {"driver_file"} |->
             IF n = "driver_file" THEN DriverPath ELSE opts[n]]

\* the utilities a search path directory holds, without extension
InstalledUtilities(os) ==
    {JoinOn(os, SearchPath[1], <<UTILITIES[i]>>) : i \in DOMAIN UTILITIES}

(* Family 1, the merge: flags, positional binaries and driver file keys, on a
   platform where every file exists. *)
CliChoices ==
    { <<"old_binary_filename", <<"old.elf">>>>,
      <<"new_binary_filename", <<"new.elf">>>>,
      <<"language", <<"c++">>>>,
      <<"language", <<"c">>>>,
      <<"build_info", <<>>>>,
      <<"similarity_threshold", <<"0.5">>>>,
      <<"skip_details", <<>>>>,
      <<"load_plugin", <<"plugin">>>>,
      <<"old_alias", <<"OLD">>>>,
      <<"old_info_file", <<"old.txt">>>>,
      <<"objdump_command", PredefinedPath("objdump")>> }

DriverChoices ==
    { <<"old_binary_filename", PyStr(<<"old.elf">>)>>,
      <<"new_binary_filename", PyStr(<<"new.elf">>)>>,
      <<"language", PyStr(<<"ada">>)>>,
      <<"build_info", PyStr(<<"nightly">>)>>,
      <<"similarity_threshold", PyFloat("0.7")>>,
      <<"skip_details", PyBool(TRUE)>>,
      <<"html_template_dir", PyStr(<<"html">>)>>,
      <<"new_alias", PyStr(<<"NEW">>)>>,
      <<"old_alias", None>>,
      <<"nm_command", None>> }

MalformedDoc == DriverDoc(FALSE, <<>>, FALSE, <<>>)

MergeDocs ==
    {NoDoc, MalformedDoc}
        \cup {DriverDoc(TRUE, AsFunction(c), FALSE, <<>>) :
                 c \in Mentions(DriverChoices, MaxDriverKeys)}

MergeScenarios ==
    LET fs == BinaryFiles \cup InfoFiles \cup InstalledUtilities("posix")
                  \cup {PredefinedPath("objdump")}
        exes == InstalledUtilities("posix") \cup {PredefinedPath("objdump")}
    IN  {Scenario("posix", fs, exes, WithDriverFile(AsFunction(c), doc),
                  SubSeq(PositionalNames, 1, k), doc) :
            c \in Mentions(CliChoices, MaxCliFlags), k \in 0..MaxBinaries,
            doc \in MergeDocs}

(* Family 2, binary_pairs: driver files with a list of data sets, each field
   absent (get gives None), empty or given. *)
DataSet(short_name, old_binary, new_binary) ==
    [short_name |-> short_name, old_binary |-> old_binary, new_binary |-> new_binary]

DataSets ==
    {DataSet(s, o, n) :
        s \in {None, PyStr(<<>>), PyStr(<<"p">>), PyStr(<<"q">>)},
        o \in {None, PyStr(<<"a.elf">>)},
        n \in {None, PyStr(<<>>), PyStr(<<"b.elf">>)}}

RECURSIVE SeqsUpTo(_, _)
SeqsUpTo(S, n) ==
    IF n = 0 THEN {<<>>}
    ELSE SeqsUpTo(S, n - 1)
             \cup {Append(q, x) : q \in {r \in SeqsUpTo(S, n - 1) : Len(r) = n - 1}, x \in S}

PairsScenarios ==
    LET fs == BinaryFiles \cup InfoFiles \cup InstalledUtilities("posix")
    IN  {Scenario("posix", fs, InstalledUtilities("posix"),
                  [n \in {"driver_file"} |-> DriverPath],
                  SubSeq(PositionalNames, 1, k),
                  DriverDoc(TRUE, <<>>, TRUE, pairs)) :
            k \in {0, 1}, pairs \in SeqsUpTo(DataSets, MaxPairs)}

(* Family 3, the utilities: both platforms, a bin_dir configured or not, a
   bin_prefix, a command predefined or not, and the executables that exist:
   the same <<directory, extension>> slots for every utility but at most one,
   which is installed nowhere. *)
Slots == {<<d, x>> : d \in {BinDir, SearchPath[1]}, x \in {<<>>, <<".exe">>}}

UtilityFiles(os, prefix, slots, absent) ==
    {JoinOn(os, sl[1], prefix \o <<u>> \o sl[2]) :
        sl \in slots, u \in UtilityNames \ absent}

\* the predefined command: none, or a path that is absent, a file that is
\* not executable, or an executable file
PredefinedChoices ==
    {<<"none", "absent">>}
        \cup {<<u, st>> : u \in {"objdump", "readelf"}, st \in {"absent", "file", "exec"}}

UtilityOpts(with_bin_dir, predefined) ==
    AsFunction((IF with_bin_dir THEN {<<"bin_dir", BinDir>>} ELSE {})
                 \cup (IF predefined[1] # "none"
                       THEN {<<CommandName(predefined[1]), PredefinedPath(predefined[1])>>}
                       ELSE {}))

UtilityScenarios ==
    {Scenario(os,
              UtilityFiles(os, prefix, slots, absent)
                  \cup (IF predefined[2] \in {"file", "exec"}
                        THEN {PredefinedPath(predefined[1])} ELSE {}),
              UtilityFiles(os, prefix, slots, absent)
                  \cup (IF predefined[2] = "exec"
                        THEN {PredefinedPath(predefined[1])} ELSE {}),
              WithDriverFile(UtilityOpts(with_bin_dir, predefined),
                  IF prefix = <<>> THEN NoDoc
                  ELSE DriverDoc(TRUE, AsFunction({<<"bin_prefix", PyStr(prefix)>>}),
                                 FALSE, <<>>)),
              <<>>,
              IF prefix = <<>> THEN NoDoc
              ELSE DriverDoc(TRUE, AsFunction({<<"bin_prefix", PyStr(prefix)>>}),
                             FALSE, <<>>)) :
        os \in {"posix", "nt"}, prefix \in {<<>>, <<"avr-">>}, slots \in SUBSET Slots,
        absent \in {{}} \cup {{u} : u \in UtilityNames},
        with_bin_dir \in BOOLEAN, predefined \in PredefinedChoices}

(* Family 4, the checks after the merge: both binaries and both info files
   named, any of the four files missing, at most one utility installed
   nowhere, the old alias given or not. *)
ValidationScenarios ==
    {Scenario("posix",
              ((BinaryFiles \cup InfoFiles) \ missing)
                  \cup UtilityFiles("posix", <<>>, {<<SearchPath[1], <<>>>>}, absent),
              UtilityFiles("posix", <<>>, {<<SearchPath[1], <<>>>>}, absent),
              AsFunction({<<"old_binary_filename", <<"old.elf">>>>,
                          <<"new_binary_filename", <<"new.elf">>>>,
                          <<"old_info_file", <<"old.txt">>>>,
                          <<"new_info_file", <<"new.txt">>>>} \cup alias),
              <<>>, NoDoc) :
        missing \in SUBSET {<<"old.elf">>, <<"new.elf">>, <<"old.txt">>, <<"new.txt">>},
        absent \in {{}} \cup {{u} : u \in UtilityNames},
        alias \in {{}, {<<"old_alias", <<"OLD">>>>}}}

Scenarios == MergeScenarios \cup PairsScenarios \cup UtilityScenarios
                 \cup ValidationScenarios

-----------------------------------------------------------------------------
(* The specification *)

Init ==
    /\ \E sc \in Scenarios :
          /\ os_name = sc.os_name
          /\ files = sc.files
          /\ executables = sc.executables
          /\ argv = sc.argv
          /\ driver_doc = sc.driver_doc
    /\ cmd_line_args = [opts |-> [n \in CmdLineNames |-> Unset], binaries |-> <<>>]
    /\ settings = [n \in Names |-> Unset]
    /\ mass_report_members = <<>>
    /\ binary_info = [old |-> Unset, new |-> Unset]
    /\ warnings = {}
    /\ template = NoTemplate
    /\ from_template = FALSE
    /\ pc = "preset"
    /\ err = NoError

Next ==
    \/ PresetDefaults
    \/ ParseCommandLineArgs
    \/ ReadDriverFile
    \/ NoDriverFile
    \/ ConsiderCommandLineArgs
    \/ ValidateBinaries
    \/ \E i \in DOMAIN UTILITIES : FindUtility(i)
    \/ PrepareInfoFiles
    \/ PrepareAlias
    \/ \E output_actual_values \in BOOLEAN :
           WriteParameterTemplateFile(output_actual_values)
    \/ RunOnTemplate

Spec == Init /\ [][Next]_vars

-----------------------------------------------------------------------------
(* How far a run got *)

Steps == <<"preset", "parse", "driver", "consider", "validate", "objdump", "nm",
           "readelf", "size", "info", "alias", "done">>

StepIndex(step) == CHOOSE i \in DOMAIN Steps : Steps[i] = step

\* the step that raised the exception of a failed run
FailedStep ==
    CASE err = DriverFileParseError -> "driver"
      [] err.msg = MissingField("", 0).msg -> "driver"
      [] err \in {RedundantOldBinary, RedundantNewBinary, InvalidBinaryArgumentCount}
             -> "consider"
      [] err.msg \in {OldBinaryNotFound(<<>>).msg, NewBinaryNotFound(<<>>).msg}
             -> "validate"
      [] err.msg = UtilityNotFound("").msg -> err.arg[1]
      [] err.msg \in {OldInfoFileNotFound(<<>>).msg, NewInfoFileNotFound(<<>>).msg}
             -> "info"

\* the step is the one to run next, or the one that failed
Position == IF pc = "failed" THEN FailedStep ELSE pc

\* the step has run and returned
Returned(step) == StepIndex(Position) > StepIndex(step)

\* the step has run: it returned or it raised
Attempted(step) == Returned(step) \/ (pc = "failed" /\ FailedStep = step)

-----------------------------------------------------------------------------
(* The three sources of a value, as the claims name them *)

\* the parameter is a key of the driver file or a flag on the command line
Mentioned(n) == n \in DOMAIN argv.opts \/ n \in DOMAIN driver_doc.params

\* d: the driver file's value, the schema default when it has none
DriverValue(n) ==
    IF n \in DOMAIN driver_doc.params THEN driver_doc.params[n] ELSE Default(n)

\* the value after the merge of the driver file and the named flags
Merged(n) ==
    IF n \in CmdLineNames /\ cmd_line_args.opts[n] # Default(n)
    THEN cmd_line_args.opts[n]
    ELSE DriverValue(n)

PositionalCount == Len(argv.binaries)

Positional(i) == PyStr(<<argv.binaries[i]>>)

BinaryNames == {"old_binary_filename", "new_binary_filename"}

AliasNames == {"old_alias", "new_alias"}

CommandNames == {CommandName(u) : u \in UtilityNames}

-----------------------------------------------------------------------------
(* C1 *)

\* C1, as stated: after a successful resolution every parameter that is
\* neither a key of the driver file nor a flag on the command line has its
\* schema default.
C1_UnmentionedIsDefault ==
    pc = "done" =>
        \A n \in Names : ~Mentioned(n) => settings[n] = Default(n)

\* C1, amended: after a successful resolution every unmentioned parameter has
\* its schema default, except the derived ones: an unmentioned binary filename
\* is the positional binary when two are given, an unmentioned alias is the
\* resolved binary filename, and an unmentioned <name>_command is the
\* executable file findUtility found.
C1_UnmentionedIsDefaultOrDerived ==
    pc = "done" =>
        \A n \in Names : ~Mentioned(n) =>
            CASE n = "old_binary_filename" ->
                     settings[n] = IF PositionalCount = 2 THEN Positional(1) ELSE Default(n)
              [] n = "new_binary_filename" ->
                     settings[n] = IF PositionalCount = 2 THEN Positional(2) ELSE Default(n)
              [] n = "old_alias" -> settings[n] = settings["old_binary_filename"]
              [] n = "new_alias" -> settings[n] = settings["new_binary_filename"]
              [] n \in CommandNames ->
                     settings[n] # Default(n) /\ IsExecutableFile(settings[n][2])
              [] OTHER -> settings[n] = Default(n)

\* a successful resolution with two positional binaries and nothing else given
C1_Witness ==
    /\ pc = "done"
    /\ ~from_template
    /\ PositionalCount = 2
    /\ \A n \in Names : ~Mentioned(n)
    /\ settings["language"] = PyStr(<<"c++">>)
    /\ settings["objdump_command"] # None
    /\ settings["old_alias"] = Positional(1)

-----------------------------------------------------------------------------
(* C2 *)

\* C2, as stated: after _readDriverFile and _considerCommandLineArgs the value
\* of every command line parameter is the parsed flag value c when c differs
\* from the schema default, and the driver file's value d when it does not.
C2_CliBeatsDriverOnlyIfNotDefault ==
    pc = "validate" =>
        \A n \in CmdLineNames : settings[n] = Merged(n)

\* C2, amended: the same, except that with two positional binaries
\* old_binary_filename and new_binary_filename are the positional binaries.
C2_MergeExceptPositionals ==
    pc = "validate" =>
        \A n \in CmdLineNames :
            settings[n] =
                IF PositionalCount = 2 /\ n = "old_binary_filename" THEN Positional(1)
                ELSE IF PositionalCount = 2 /\ n = "new_binary_filename" THEN Positional(2)
                ELSE Merged(n)

\* a flag equal to the default left the driver file's value in place
C2_Witness ==
    /\ pc = "validate"
    /\ ~from_template
    /\ \E n \in DOMAIN argv.opts \cap DOMAIN driver_doc.params :
          /\ cmd_line_args.opts[n] = Default(n)
          /\ driver_doc.params[n] # Default(n)
          /\ settings[n] = driver_doc.params[n]

-----------------------------------------------------------------------------
(* C3 *)

\* C3: a run whose driver file is the template written with
\* output_actual_values=False has, once the file is read, every parameter
\* (but driver_file, which names the template) at its schema default.
C3_TemplateRoundTrip ==
    (from_template /\ ~template.output_actual_values /\ pc = "consider") =>
        \A n \in Names \ {"driver_file"} : settings[n] = Default(n)

-----------------------------------------------------------------------------
(* C4 *)

\* C4: with two positional binaries and neither binary filename given by the
\* driver file or a flag, _considerCommandLineArgs returns and the filenames
\* are the two positionals, in order; with no positional both filenames are
\* what the merge made them.
C4_PositionalBinaries ==
    Attempted("consider") =>
        /\ (PositionalCount = 2 /\ \A n \in BinaryNames : ~Mentioned(n)) =>
              /\ Returned("consider")
              /\ settings["old_binary_filename"] = Positional(1)
              /\ settings["new_binary_filename"] = Positional(2)
        /\ PositionalCount = 0 =>
              /\ Returned("consider")
              /\ \A n \in BinaryNames : settings[n] = Merged(n)

\* a finished resolution that took both filenames from the positionals
C4_Witness ==
    /\ pc = "done"
    /\ PositionalCount = 2
    /\ settings["old_binary_filename"] = PyStr(<<"a.elf">>)
    /\ settings["new_binary_filename"] = PyStr(<<"b.elf">>)

-----------------------------------------------------------------------------
(* C5 *)

\* C5: with two positional binaries and a binary filename that is not None
\* after the merge, _considerCommandLineArgs raises the redundant definition
\* exception, the same one for the old and for the new filename.
C5_RedundantBinaryDefinition ==
    (Attempted("consider") /\ PositionalCount = 2
         /\ \E n \in BinaryNames : Merged(n) # None) =>
        /\ pc = "failed"
        /\ err = RedundantOldBinary

\* the redundant filename is the new one
C5_Witness ==
    /\ pc = "failed"
    /\ err = RedundantOldBinary
    /\ PositionalCount = 2
    /\ Merged("old_binary_filename") = None
    /\ Merged("new_binary_filename") # None

-----------------------------------------------------------------------------
(* C6 *)

InvalidCountMessage == "Please specify either none or two binaries"

\* C6, as stated: with a number of positional binaries other than 0 and 2
\* the resolution fails with the invalid count exception, whatever the flags
\* and the driver file are.
C6_InvalidBinaryArgumentCount ==
    PositionalCount \notin {0, 2} =>
        /\ pc # "done"
        /\ pc = "failed" => err.msg = InvalidCountMessage

\* C6, amended: with a number of positional binaries other than 0 and 2
\* _considerCommandLineArgs never returns, and it raises the invalid count
\* exception whatever the flags and the driver file's values are; the
\* resolution fails with another exception only when reading the driver file
\* raised first (a YAML error or a missing binary_pairs field).
C6_InvalidCountUnlessDriverFileFails ==
    PositionalCount \notin {0, 2} =>
        /\ ~Returned("consider")
        /\ Attempted("consider") => (pc = "failed" /\ err.msg = InvalidCountMessage)
        /\ (pc = "failed" /\ ~Attempted("consider")) => FailedStep = "driver"

\* three positionals beside a named binary and a driver file that was read
C6_Witness ==
    /\ pc = "failed"
    /\ err.msg = InvalidCountMessage
    /\ PositionalCount = 3
    /\ "old_binary_filename" \in DOMAIN argv.opts
    /\ driver_doc.params # <<>>

-----------------------------------------------------------------------------
(* C7 *)

FieldsInOrder == <<"short_name", "old_binary", "new_binary">>

\* the data set lacks the field: it is absent or empty
Lacks(data_set, field) == data_set[field] \in {None, PyStr(<<>>)}

LackingPairs(pairs) ==
    {i \in DOMAIN pairs : \E j \in DOMAIN FieldsInOrder : Lacks(pairs[i], FieldsInOrder[j])}

Least(S) == CHOOSE i \in S : \A j \in S : i <= j

FirstLackingField(data_set) ==
    FieldsInOrder[Least({j \in DOMAIN FieldsInOrder : Lacks(data_set, FieldsInOrder[j])})]

\* C7: reading a driver file with binary_pairs fails at the first data set
\* (counted from 1) that lacks a field, naming the first lacking field in the
\* order short_name, old_binary, new_binary; when no data set lacks a field
\* mass_report_members holds one member per data set, in document order.
C7_BinaryPairs ==
    (Attempted("driver") /\ "driver_file" \in DOMAIN argv.opts
         /\ driver_doc.ok /\ driver_doc.has_binary_pairs) =>
        LET pairs == driver_doc.binary_pairs
        IN  IF LackingPairs(pairs) # {}
            THEN /\ pc = "failed"
                 /\ err.msg = "No {field} defined for binary pair {bin_pair_id}"
                 /\ err.index = Least(LackingPairs(pairs))
                 /\ err.arg = <<FirstLackingField(pairs[Least(LackingPairs(pairs))])>>
            ELSE /\ Returned("driver")
                 /\ Len(mass_report_members) = Len(pairs)
                 /\ \A i \in DOMAIN pairs :
                       /\ mass_report_members[i].short_name = pairs[i].short_name
                       /\ mass_report_members[i].old_binary = pairs[i].old_binary
                       /\ mass_report_members[i].new_binary = pairs[i].new_binary

\* the second data set is the first to lack a field, and lacks two
C7_Witness ==
    /\ pc = "failed"
    /\ Len(driver_doc.binary_pairs) = 2
    /\ err.index = 2
    /\ err.arg = <<"old_binary">>
    /\ Lacks(driver_doc.binary_pairs[2], "new_binary")
    /\ Len(mass_report_members) = 1

-----------------------------------------------------------------------------
(* C8, C9, C10 *)

\* whether the path is a regular executable file
RegularExecutable(path) == path \in files \cap executables

\* the value of <name>_command before findUtility(name)
PredefinedCommand(name) == Merged(CommandName(name))

PredefinedIsExecutable(name) ==
    /\ PredefinedCommand(name) # None
    /\ RegularExecutable(PredefinedCommand(name)[2])

\* directory/(bin_prefix + name) and directory/(bin_prefix + name + ".exe")
PlainCandidate(directory, name) ==
    directory \o <<IF os_name = "nt" THEN "\\" ELSE "/">>
        \o settings["bin_prefix"][2] \o <<name>>

ExeCandidate(directory, name) == PlainCandidate(directory, name) \o <<".exe">>

Hits(directory, name) ==
    {p \in {PlainCandidate(directory, name), ExeCandidate(directory, name)} :
        RegularExecutable(p)}

BinDirHits(name) ==
    IF settings["bin_dir"] = None THEN {} ELSE Hits(settings["bin_dir"][2], name)

SearchPathHits(name) == UNION {Hits(SearchPath[i], name) : i \in DOMAIN SearchPath}

UtilityNotFoundRaised(name) ==
    /\ pc = "failed"
    /\ err.msg = "Unnable to find {name} command"
    /\ err.arg = <<name>>

ResolvedTo(name, hits) ==
    /\ Returned(name)
    /\ settings[CommandName(name)][1] = "str"
    /\ settings[CommandName(name)][2] \in hits

\* C8: findUtility(name) resolves <name>_command by the first tier that
\* yields a regular executable file: the predefined command, left unchanged;
\* else a candidate in bin_dir, whatever the search path holds; else a hit on
\* the search path; and it raises UtilityNotFound(name) exactly when no tier
\* yields one.
C8_FirstTierWins ==
    \A i \in DOMAIN UTILITIES :
        LET name == UTILITIES[i]
        IN  Attempted(name) =>
                IF PredefinedIsExecutable(name)
                THEN Returned(name) /\ settings[CommandName(name)] = PredefinedCommand(name)
                ELSE IF BinDirHits(name) # {} THEN ResolvedTo(name, BinDirHits(name))
                ELSE IF SearchPathHits(name) # {} THEN ResolvedTo(name, SearchPathHits(name))
                ELSE UtilityNotFoundRaised(name)

\* objdump was found in bin_dir although the search path holds it as well
C8_Witness ==
    /\ pc = "done"
    /\ ~PredefinedIsExecutable("objdump")
    /\ SearchPathHits("objdump") # {}
    /\ BinDirHits("objdump") # {}
    /\ settings["objdump_command"][2] \in BinDirHits("objdump")

\* C9: a predefined <name>_command that is not a regular executable file
\* makes findUtility warn and search on: a hit in bin_dir or on the search
\* path replaces the command and findUtility returns, and only without any
\* hit UtilityNotFound is raised. A warning is emitted for nothing else, and
\* an exception is what ends a run: no step runs after one.
C9_InvalidPredefinedOnlyWarns ==
    /\ \A i \in DOMAIN UTILITIES :
          LET name == UTILITIES[i]
          IN  (Attempted(name) /\ PredefinedCommand(name) # None /\ ~PredefinedIsExecutable(name)) =>
                  /\ name \in warnings
                  /\ IF BinDirHits(name) \cup SearchPathHits(name) # {}
                     THEN /\ ResolvedTo(name, BinDirHits(name) \cup SearchPathHits(name))
                          /\ settings[CommandName(name)] # PredefinedCommand(name)
                     ELSE UtilityNotFoundRaised(name)
    /\ \A name \in warnings :
          Attempted(name) /\ PredefinedCommand(name) # None /\ ~PredefinedIsExecutable(name)
    /\ (err # NoError) <=> (pc = "failed")

\* a resolution that succeeded after warning about the predefined objdump
C9_Witness ==
    /\ pc = "done"
    /\ "objdump" \in warnings
    /\ settings["objdump_command"] # PredefinedCommand("objdump")

\* the candidate the platform tries first among the hits of a directory
Preferred(directory, name) ==
    IF os_name = "nt"
    THEN IF RegularExecutable(ExeCandidate(directory, name))
         THEN ExeCandidate(directory, name) ELSE PlainCandidate(directory, name)
    ELSE IF RegularExecutable(PlainCandidate(directory, name))
         THEN PlainCandidate(directory, name) ELSE ExeCandidate(directory, name)

\* C10: in bin_dir and on the search path the first executable candidate in
\* the platform's order wins: name.exe before name on Windows, name before
\* name.exe elsewhere.
C10_ExtensionOrder ==
    \A i \in DOMAIN UTILITIES :
        LET name == UTILITIES[i]
        IN  (Attempted(name) /\ ~PredefinedIsExecutable(name)) =>
                /\ BinDirHits(name) # {} =>
                      settings[CommandName(name)]
                          = PyStr(Preferred(settings["bin_dir"][2], name))
                /\ (BinDirHits(name) = {} /\ SearchPathHits(name) # {}) =>
                      settings[CommandName(name)] = PyStr(Preferred(SearchPath[1], name))

\* on Windows, with size and size.exe both in bin_dir, size.exe was taken
C10_Witness ==
    /\ pc = "done"
    /\ os_name = "nt"
    /\ ~PredefinedIsExecutable("size")
    /\ Cardinality(BinDirHits("size")) = 2
    /\ settings["size_command"] = PyStr(ExeCandidate(BinDir, "size"))

-----------------------------------------------------------------------------
(* C11 *)

\* the binary filename an alias stands for
BinaryOf(alias) ==
    IF alias = "old_alias" THEN "old_binary_filename" ELSE "new_binary_filename"

\* neither a key of the driver file nor a flag nor a positional gave the binary
BinaryNotConfigured(n) == ~Mentioned(n) /\ PositionalCount = 0

\* C11: after a successful resolution an alias that neither the driver file
\* nor the command line gave a value (the merge left it None) equals the
\* resolved binary filename of its side, which is None when no binary was
\* configured; an alias that was given a value still has that value.
C11_AliasDefaulting ==
    pc = "done" =>
        \A alias \in AliasNames :
            /\ Merged(alias) = None =>
                   settings[alias] = settings[BinaryOf(alias)]
            /\ Merged(alias) # None => settings[alias] = Merged(alias)
            /\ (Merged(alias) = None /\ BinaryNotConfigured(BinaryOf(alias))) =>
                   settings[alias] = None

\* a resolution with both binaries configured where the old alias was given
\* and stayed, and the new alias was not and took the new binary's filename
C11_Witness ==
    /\ pc = "done"
    /\ Mentioned("old_alias")
    /\ settings["old_alias"] = Merged("old_alias")
    /\ settings["old_alias"] # settings["old_binary_filename"]
    /\ ~Mentioned("new_alias")
    /\ settings["new_alias"] = settings["new_binary_filename"]
    /\ settings["new_alias"] # None

-----------------------------------------------------------------------------
(* C12 *)

\* the binary or info file is configured and the file does not exist
Missing(n) == Truthy(settings[n]) /\ settings[n][2] \notin files

\* findUtility(name) left its trace: <name>_command is an executable file
UtilityResolved(name) ==
    /\ settings[CommandName(name)][1] = "str"
    /\ RegularExecutable(settings[CommandName(name)][2])

\* findUtility(name) left no trace: no warning, <name>_command as merged
UtilityUntouched(name) ==
    /\ name \notin warnings
    /\ settings[CommandName(name)] = Merged(CommandName(name))

InfoFilesUntouched == binary_info = [old |-> Unset, new |-> Unset]

AliasesUntouched == \A alias \in AliasNames : settings[alias] = Merged(alias)

BinaryNotFoundMessages == {OldBinaryNotFound(<<>>).msg, NewBinaryNotFound(<<>>).msg}

InfoFileNotFoundMessages ==
    {OldInfoFileNotFound(<<>>).msg, NewInfoFileNotFound(<<>>).msg}

\* C12: the post-merge checks run in the order old binary, new binary,
\* objdump, nm, readelf, size, old info file, new info file, alias defaulting,
\* and stop at the first failure: a missing configured binary is reported
\* whatever the utilities are (the old one before the new one), a utility
\* is reported missing only after the utilities before it were resolved and
\* with the ones after it untouched, a missing info file is reported only
\* after all four utilities were resolved (the old one before the new one),
\* and after any failure the later steps, alias defaulting included, have
\* not run.
C12_FixedOrder ==
    /\ Attempted("validate") =>
          /\ Missing("old_binary_filename") =>
                 (pc = "failed"
                    /\ err = OldBinaryNotFound(settings["old_binary_filename"][2]))
          /\ (~Missing("old_binary_filename") /\ Missing("new_binary_filename")) =>
                 (pc = "failed"
                    /\ err = NewBinaryNotFound(settings["new_binary_filename"][2]))
          /\ (~Missing("old_binary_filename") /\ ~Missing("new_binary_filename")) =>
                 ~(pc = "failed" /\ err.msg \in BinaryNotFoundMessages)
    /\ (pc = "failed" /\ err.msg \in BinaryNotFoundMessages) =>
          /\ \A name \in UtilityNames : UtilityUntouched(name)
          /\ InfoFilesUntouched
          /\ AliasesUntouched
    /\ \A i \in DOMAIN UTILITIES :
          UtilityNotFoundRaised(UTILITIES[i]) =>
             /\ ~Missing("old_binary_filename") /\ ~Missing("new_binary_filename")
             /\ \A j \in DOMAIN UTILITIES :
                   /\ j < i => UtilityResolved(UTILITIES[j])
                   /\ j > i => UtilityUntouched(UTILITIES[j])
             /\ InfoFilesUntouched
             /\ AliasesUntouched
    /\ (pc = "failed" /\ err.msg \in InfoFileNotFoundMessages) =>
          /\ ~Missing("old_binary_filename") /\ ~Missing("new_binary_filename")
          /\ \A name \in UtilityNames : UtilityResolved(name)
          /\ err = OldInfoFileNotFound(err.arg) => Missing("old_info_file")
          /\ err = NewInfoFileNotFound(err.arg) =>
                 (~Missing("old_info_file") /\ Missing("new_info_file"))
          /\ AliasesUntouched
    /\ Attempted("info") =>
          /\ \A name \in UtilityNames : UtilityResolved(name)
          /\ Missing("old_info_file") =>
                 (pc = "failed" /\ err = OldInfoFileNotFound(settings["old_info_file"][2]))
          /\ (~Missing("old_info_file") /\ Missing("new_info_file")) =>
                 (pc = "failed" /\ err = NewInfoFileNotFound(settings["new_info_file"][2]))
    /\ pc = "done" =>
          /\ \A n \in BinaryNames \cup {"old_info_file", "new_info_file"} : ~Missing(n)
          /\ \A name \in UtilityNames : UtilityResolved(name)
          /\ binary_info.old # Unset /\ binary_info.new # Unset

\* the new binary is missing and nm is installed nowhere: the failure is the
\* binary's, and no later step has run (the old alias was not given and is
\* still None although the old binary is configured)
C12_Witness ==
    /\ pc = "failed"
    /\ err = NewBinaryNotFound(settings["new_binary_filename"][2])
    /\ Hits(SearchPath[1], "nm") = {}
    /\ settings["nm_command"] = None
    /\ Truthy(settings["old_binary_filename"])
    /\ settings["old_alias"] = None
    /\ InfoFilesUntouched

====
